---- MODULE Spec2Model ----
(***************************************************************************)
(* normify: translation between venue instrument names and the canonical   *)
(* dotted format.  Text is modelled by TLC strings, taken apart character  *)
(* by character with Len, Head, Tail, SubSeq and \o, so that splitting,    *)
(* case folding, date parsing and formatting are computed as the code      *)
(* computes them.                                                          *)
(***************************************************************************)
EXTENDS Integers, Sequences, FiniteSets, TLC

VARIABLES pc, op, handler, market_type, name, pattern, instrument, now,
          out_instrument, out_name, out_bool, out_err, threads, completed,
          wall_clock, expired

vars == <<pc, op, handler, market_type, name, pattern, instrument, now,
          out_instrument, out_name, out_bool, out_err, threads, completed,
          wall_clock, expired>>

(***************************************************************************)
(* Option<T>: None is the empty tuple, Some(x) the one-element tuple.      *)
(***************************************************************************)
None == <<>>
Some(x) == <<x>>
IsSome(o) == Len(o) = 1
Unwrap(o) == o[1]

\* Result<T, E>: err is the empty text for Ok, the error's name otherwise
Ok(i) == [err |-> "", value |-> Some(i)]
Err(e) == [err |-> e, value |-> None]

(***************************************************************************)
(* Characters and strings (str methods of the standard library).           *)
(***************************************************************************)
Lowers == "abcdefghijklmnopqrstuvwxyz"
Uppers == "ABCDEFGHIJKLMNOPQRSTUVWXYZ"
Digits == "0123456789"
\* char::is_whitespace, on the characters the inputs use
Whitespace == {" ", "\t", "\n", "\r"}

CharAt(s, i) == SubSeq(s, i, i)

\* index of the first occurrence of character c in s from position i on,
\* 0 when absent (str::find)
RECURSIVE FindFrom(_, _, _)
FindFrom(c, s, i) ==
    IF i > Len(s) THEN 0
    ELSE IF CharAt(s, i) = c THEN i
    ELSE FindFrom(c, s, i + 1)

FirstIndex(c, s) == FindFrom(c, s, 1)

DigitChars == {CharAt(Digits, i) : i \in 1..Len(Digits)}
DigitValue == [c \in DigitChars |-> FirstIndex(c, Digits) - 1]
IsDigit(c) == c \in DigitChars

LowerChars == {CharAt(Lowers, i) : i \in 1..Len(Lowers)}
UpperOf == [c \in LowerChars |-> CharAt(Uppers, FirstIndex(c, Lowers))]

to_uppercase_char(c) == IF c \in LowerChars THEN UpperOf[c] ELSE c

RECURSIVE to_uppercase(_)
to_uppercase(s) ==
    IF s = "" THEN "" ELSE to_uppercase_char(Head(s)) \o to_uppercase(Tail(s))

eq_ignore_ascii_case(a, b) == to_uppercase(a) = to_uppercase(b)

\* str::split(d).collect(): always at least one piece, empty pieces kept
RECURSIVE split(_, _)
split(s, d) ==
    LET i == FirstIndex(d, s)
    IN  IF i = 0 THEN <<s>>
        ELSE <<SubSeq(s, 1, i - 1)>> \o split(SubSeq(s, i + 1, Len(s)), d)

\* str::split_once(d): the text before and after the first d
split_once(s, d) ==
    LET i == FirstIndex(d, s)
    IN  IF i = 0 THEN None
        ELSE Some(<<SubSeq(s, 1, i - 1), SubSeq(s, i + 1, Len(s))>>)

RECURSIVE trim_start(_)
trim_start(s) ==
    IF s # "" /\ Head(s) \in Whitespace THEN trim_start(Tail(s)) ELSE s

RECURSIVE trim_end(_)
trim_end(s) ==
    IF s # "" /\ CharAt(s, Len(s)) \in Whitespace
    THEN trim_end(SubSeq(s, 1, Len(s) - 1)) ELSE s

trim(s) == trim_end(trim_start(s))

\* [T]::join / format! with one separator
RECURSIVE join(_, _)
join(parts, d) ==
    IF Len(parts) = 0 THEN ""
    ELSE IF Len(parts) = 1 THEN parts[1]
    ELSE parts[1] \o d \o join(Tail(parts), d)

(***************************************************************************)
(* u64: a strike is kept as its decimal numeral without leading zeros,     *)
(* which is what Display prints; parsing checks the 64-bit range on the    *)
(* numeral, so no machine integer of TLC is involved.                      *)
(***************************************************************************)
U64_MAX == "18446744073709551615"

RECURSIVE AllDigits(_)
AllDigits(s) == s = "" \/ (IsDigit(Head(s)) /\ AllDigits(Tail(s)))

RECURSIVE StripZeros(_)
StripZeros(s) ==
    IF Len(s) > 1 /\ Head(s) = "0" THEN StripZeros(Tail(s)) ELSE s

\* a <= b for two numerals of the same length
RECURSIVE NumeralLeq(_, _)
NumeralLeq(a, b) ==
    IF a = "" THEN TRUE
    ELSE LET x == DigitValue[Head(a)]
             y == DigitValue[Head(b)]
         IN  IF x < y THEN TRUE
             ELSE IF x > y THEN FALSE
             ELSE NumeralLeq(Tail(a), Tail(b))

FitsU64(n) ==
    \/ Len(n) < Len(U64_MAX)
    \/ (Len(n) = Len(U64_MAX) /\ NumeralLeq(n, U64_MAX))

\* str::parse::<u64>(): an optional '+', then one or more digits, in range
parse_u64(s) ==
    LET body == IF s # "" /\ Head(s) = "+" THEN Tail(s) ELSE s
    IN  IF body = "" \/ ~AllDigits(body) THEN None
        ELSE IF FitsU64(StripZeros(body)) THEN Some(StripZeros(body))
        ELSE None

(***************************************************************************)
(* Calendar dates.  A date is [year, month, day]; parsing and formatting   *)
(* follow the strftime items the code passes to the date library.          *)
(***************************************************************************)
STANDARD_DATE_FORMAT == "%Y%m%d"
MonthNames == <<"Jan", "Feb", "Mar", "Apr", "May", "Jun",
                "Jul", "Aug", "Sep", "Oct", "Nov", "Dec">>

RECURSIVE LeadingDigits(_, _)
LeadingDigits(s, max) ==
    IF max = 0 \/ s = "" \/ ~IsDigit(Head(s)) THEN 0
    ELSE 1 + LeadingDigits(Tail(s), max - 1)

RECURSIVE DecimalValue(_)
DecimalValue(s) ==
    IF s = "" THEN 0
    ELSE DecimalValue(SubSeq(s, 1, Len(s) - 1)) * 10
         + DigitValue[CharAt(s, Len(s))]

\* the library's scan of an unsigned number of 1..max digits:
\* None, or Some(<<value, rest>>)
scan_number(s, max) ==
    LET n == LeadingDigits(s, max)
    IN  IF n = 0 THEN None
        ELSE Some(<<DecimalValue(SubSeq(s, 1, n)), SubSeq(s, n + 1, Len(s))>>)

\* %Y: a sign lifts the four-digit limit; a year of more than six digits is
\* outside every date the library can hold
scan_year(s) ==
    IF s # "" /\ (Head(s) = "+" \/ Head(s) = "-")
    THEN LET n == LeadingDigits(Tail(s), Len(s))
             v == DecimalValue(SubSeq(s, 2, n + 1))
         IN  IF n = 0 \/ n > 6 THEN None
             ELSE Some(<<IF Head(s) = "-" THEN 0 - v ELSE v,
                         SubSeq(s, n + 2, Len(s))>>)
    ELSE scan_number(s, 4)

\* %b: three letters naming a month, in any letter case
scan_short_month(s) ==
    IF Len(s) < 3 THEN None
    ELSE LET head == SubSeq(s, 1, 3)
         IN  IF \E m \in 1..12 : eq_ignore_ascii_case(head, MonthNames[m])
             THEN Some(<<CHOOSE m \in 1..12 :
                            eq_ignore_ascii_case(head, MonthNames[m]),
                         SubSeq(s, 4, Len(s))>>)
             ELSE None

IsLeapYear(y) == (y % 4 = 0 /\ y % 100 # 0) \/ y % 400 = 0

DaysInMonth(y, m) ==
    IF m = 2 THEN (IF IsLeapYear(y) THEN 29 ELSE 28)
    ELSE IF m \in {4, 6, 9, 11} THEN 30 ELSE 31

MIN_YEAR == -262143
MAX_YEAR == 262142

IsValidDate(y, m, d) ==
    /\ y >= MIN_YEAR /\ y <= MAX_YEAR
    /\ m >= 1 /\ m <= 12
    /\ d >= 1 /\ d <= DaysInMonth(y, m)

\* the fields collected so far: each None or Some(number)
NoFields == [year |-> None, year_mod_100 |-> None, month |-> None, day |-> None]

\* a two-digit year alone pivots at 70: 70..99 are 19yy, 00..69 are 20yy
resolve_year(p) ==
    IF IsSome(p.year) THEN p.year
    ELSE IF IsSome(p.year_mod_100)
         THEN Some(Unwrap(p.year_mod_100)
                   + (IF Unwrap(p.year_mod_100) < 70 THEN 2000 ELSE 1900))
    ELSE None

to_naive_date(p) ==
    LET y == resolve_year(p)
    IN  IF IsSome(y) /\ IsSome(p.month) /\ IsSome(p.day)
           /\ IsValidDate(Unwrap(y), Unwrap(p.month), Unwrap(p.day))
        THEN Some([year |-> Unwrap(y), month |-> Unwrap(p.month),
                   day |-> Unwrap(p.day)])
        ELSE None

\* consume s item by item; a numeric item skips the white space before it;
\* text left over after the last item is an error
RECURSIVE parse_items(_, _, _)
parse_items(s, format, p) ==
    IF format = "" THEN (IF s = "" THEN to_naive_date(p) ELSE None)
    ELSE LET item == SubSeq(format, 1, 2)
             rest == SubSeq(format, 3, Len(format))
             r    == IF item = "%Y" THEN scan_year(trim_start(s))
                     ELSE IF item = "%b" THEN scan_short_month(s)
                     ELSE scan_number(trim_start(s), 2)
         IN  IF ~IsSome(r) THEN None
             ELSE LET v == Unwrap(r)[1]
                      q == IF item = "%Y" THEN [p EXCEPT !.year = Some(v)]
                           ELSE IF item = "%y"
                                THEN [p EXCEPT !.year_mod_100 = Some(v)]
                           ELSE IF item = "%d" THEN [p EXCEPT !.day = Some(v)]
                           ELSE [p EXCEPT !.month = Some(v)]
                  IN  parse_items(Unwrap(r)[2], rest, q)

parse_expiry_date(date_str, format) == parse_items(date_str, format, NoFields)

Pad2(n) == CharAt(Digits, (n \div 10) + 1) \o CharAt(Digits, (n % 10) + 1)

RECURSIVE Numeral(_)
Numeral(n) ==
    IF n < 10 THEN CharAt(Digits, n + 1)
    ELSE Numeral(n \div 10) \o CharAt(Digits, (n % 10) + 1)

\* %Y prints 0..9999 as four digits and any other year with its sign
FormatYear(y) ==
    IF y >= 0 /\ y <= 9999 THEN Pad2(y \div 100) \o Pad2(y % 100)
    ELSE LET a == IF y < 0 THEN 0 - y ELSE y
             n == Numeral(a)
             z == IF Len(n) < 4 THEN SubSeq("0000", 1, 4 - Len(n)) ELSE ""
         IN  (IF y < 0 THEN "-" ELSE "+") \o z \o n

RECURSIVE format_expiry_date(_, _)
format_expiry_date(date, format) ==
    IF format = "" THEN ""
    ELSE LET item == SubSeq(format, 1, 2)
             text == IF item = "%Y" THEN FormatYear(date.year)
                     ELSE IF item = "%y" THEN Pad2(date.year % 100)
                     ELSE IF item = "%m" THEN Pad2(date.month)
                     ELSE IF item = "%b" THEN MonthNames[date.month]
                     ELSE Pad2(date.day)
         IN  text \o format_expiry_date(date, SubSeq(format, 3, Len(format)))

ExpiryFormats == <<"%d%b%y", STANDARD_DATE_FORMAT, "%d%b%Y">>

\* the first of the three formats that parses decides the date
RECURSIVE normalize_expiry_from(_, _)
normalize_expiry_from(date_str, k) ==
    IF k > Len(ExpiryFormats) THEN None
    ELSE LET dt == parse_expiry_date(date_str, ExpiryFormats[k])
         IN  IF IsSome(dt)
             THEN Some(format_expiry_date(Unwrap(dt), STANDARD_DATE_FORMAT))
             ELSE normalize_expiry_from(date_str, k + 1)

\* mutant: the two-digit-year format is not tried
normalize_expiry_long_year_only(date_str) == normalize_expiry_from(date_str, 2)

normalize_expiry(date_str) == normalize_expiry_from(date_str, 1)

\* mutant: the formatted date is returned in the library's own letter case
denormalize_expiry_as_formatted(date_str, format) ==
    LET utc == parse_expiry_date(date_str, STANDARD_DATE_FORMAT)
    IN  IF IsSome(utc) THEN format_expiry_date(Unwrap(utc), format) ELSE ""

denormalize_expiry(date_str, format) ==
    LET utc == parse_expiry_date(date_str, STANDARD_DATE_FORMAT)
    IN  IF IsSome(utc) THEN to_uppercase(format_expiry_date(Unwrap(utc), format))
        ELSE ""

(***************************************************************************)
(* The clock.  A reading of Utc::now() is a date, the millisecond of the   *)
(* day and the nanoseconds past that millisecond.                          *)
(***************************************************************************)
\* 23:59:59.999 as the millisecond of the day
END_OF_DAY_MILLI == ((23 * 60 + 59) * 60 + 59) * 1000 + 999

and_time(date, milli, nano) == [date |-> date, milli |-> milli, nano |-> nano]

DateBefore(a, b) ==
    \/ a.year < b.year
    \/ a.year = b.year /\ a.month < b.month
    \/ a.year = b.year /\ a.month = b.month /\ a.day < b.day

\* DateTime<Utc> ordering, a > b
IsAfter(a, b) ==
    \/ DateBefore(b.date, a.date)
    \/ a.date = b.date /\ a.milli > b.milli
    \/ a.date = b.date /\ a.milli = b.milli /\ a.nano > b.nano

\* mutant: only the time of day is compared with 23:59:59.999
is_date_expired_time_of_day(date_str, clock) ==
    LET naive_date == parse_expiry_date(date_str, STANDARD_DATE_FORMAT)
    IN  IF ~IsSome(naive_date) THEN Err("chrono::ParseError")
        ELSE Ok(/\ ~DateBefore(clock.date, Unwrap(naive_date))
                /\ \/ clock.milli > END_OF_DAY_MILLI
                   \/ clock.milli = END_OF_DAY_MILLI /\ clock.nano > 0)

is_date_expired(date_str, clock) ==
    LET naive_date == parse_expiry_date(date_str, STANDARD_DATE_FORMAT)
    IN  IF ~IsSome(naive_date) THEN Err("chrono::ParseError")
        ELSE LET expiration_date ==
                     and_time(Unwrap(naive_date), END_OF_DAY_MILLI, 0)
             IN  Ok(IsAfter(clock, expiration_date))

(***************************************************************************)
(* The data model.                                                         *)
(***************************************************************************)
Exchange == {"Deribit", "Dydx", "Derive", "Paradex", "Aevo"}
MarketType == {"OrderBook", "PublicTrade", "Ticker", "Funding"}
OptionKind == {"Call", "Put"}

\* mutant: only the five common codes are upper-cased
Currency_new_common_only(symbol) ==
    LET upper == to_uppercase(symbol)
    IN  IF upper \in {"BTC", "USD", "ETH", "SOL", "USDC"} THEN upper ELSE symbol

\* Currency::new: the symbol itself when already upper-case, else its
\* upper-case form (the static symbols are the same text)
Currency_new(symbol) ==
    LET upper == to_uppercase(symbol)
    IN  IF symbol = upper THEN symbol ELSE upper

\* InstrumentType: one record shape for the four variants; a field a variant
\* does not carry is the empty text
Future(base, quote, expiry) ==
    [tag |-> "Future", base |-> base, quote |-> quote, expiry |-> expiry,
     strike |-> "", kind |-> ""]
Option(base, quote, expiry, strike, kind) ==
    [tag |-> "Option", base |-> base, quote |-> quote, expiry |-> expiry,
     strike |-> strike, kind |-> kind]
Spot(base, quote) ==
    [tag |-> "Spot", base |-> base, quote |-> quote, expiry |-> "",
     strike |-> "", kind |-> ""]
Perpetual(base, quote) ==
    [tag |-> "Perpetual", base |-> base, quote |-> quote, expiry |-> "",
     strike |-> "", kind |-> ""]

Instrument_new(exchange, mt, instrument_type) ==
    [exchange |-> exchange, market_type |-> mt,
     instrument_type |-> instrument_type]

Exchange_fmt(e) ==
    CASE e = "Deribit" -> "deribit"
      [] e = "Dydx"    -> "dydx"
      [] e = "Derive"  -> "derive"
      [] e = "Paradex" -> "paradex"
      [] e = "Aevo"    -> "aevo"

\* mutant: the text is compared as given, white space included
Exchange_try_from_untrimmed(value) ==
    IF eq_ignore_ascii_case(value, "deribit") THEN Some("Deribit")
    ELSE IF eq_ignore_ascii_case(value, "dydx") THEN Some("Dydx")
    ELSE IF eq_ignore_ascii_case(value, "derive") THEN Some("Derive")
    ELSE IF eq_ignore_ascii_case(value, "paradex") THEN Some("Paradex")
    ELSE IF eq_ignore_ascii_case(value, "aevo") THEN Some("Aevo")
    ELSE None

Exchange_try_from(value) ==
    LET s == trim(value)
    IN  IF eq_ignore_ascii_case(s, "deribit") THEN Some("Deribit")
        ELSE IF eq_ignore_ascii_case(s, "dydx") THEN Some("Dydx")
        ELSE IF eq_ignore_ascii_case(s, "derive") THEN Some("Derive")
        ELSE IF eq_ignore_ascii_case(s, "paradex") THEN Some("Paradex")
        ELSE IF eq_ignore_ascii_case(s, "aevo") THEN Some("Aevo")
        ELSE None

MarketType_fmt(m) ==
    CASE m = "OrderBook"   -> "o"
      [] m = "PublicTrade" -> "p"
      [] m = "Ticker"      -> "t"
      [] m = "Funding"     -> "f"

\* mutant: the codes are compared in lower case only
MarketType_try_from_lower_only(value) ==
    LET s == trim(value)
    IN  IF s \in {"o", "orderbook"} THEN Some("OrderBook")
        ELSE IF s \in {"p", "publictrade", "trade"} THEN Some("PublicTrade")
        ELSE IF s \in {"t", "ticker"} THEN Some("Ticker")
        ELSE IF s \in {"f", "funding"} THEN Some("Funding")
        ELSE None

MarketType_try_from(value) ==
    LET s == trim(value)
    IN  IF eq_ignore_ascii_case(s, "o") \/ eq_ignore_ascii_case(s, "orderbook")
        THEN Some("OrderBook")
        ELSE IF \/ eq_ignore_ascii_case(s, "p")
                \/ eq_ignore_ascii_case(s, "publictrade")
                \/ eq_ignore_ascii_case(s, "trade")
        THEN Some("PublicTrade")
        ELSE IF eq_ignore_ascii_case(s, "t") \/ eq_ignore_ascii_case(s, "ticker")
        THEN Some("Ticker")
        ELSE IF eq_ignore_ascii_case(s, "f") \/ eq_ignore_ascii_case(s, "funding")
        THEN Some("Funding")
        ELSE None

OptionKind_fmt(k) == IF k = "Call" THEN "C" ELSE "P"

OptionKind_try_from(value) ==
    IF eq_ignore_ascii_case(value, "c") \/ eq_ignore_ascii_case(value, "call")
    THEN Some("Call")
    ELSE IF eq_ignore_ascii_case(value, "p") \/ eq_ignore_ascii_case(value, "put")
    THEN Some("Put")
    ELSE None

\* Display for InstrumentType: None is the formatter's error
InstrumentType_fmt(t) ==
    CASE t.tag = "Future" ->
            Some("f." \o t.base \o "-" \o t.quote \o "-" \o t.expiry)
      [] t.tag = "Option" ->
            LET date == parse_expiry_date(t.expiry, STANDARD_DATE_FORMAT)
            IN  IF IsSome(date)
                THEN Some("o." \o t.base \o "-" \o t.quote \o "-"
                          \o format_expiry_date(Unwrap(date), STANDARD_DATE_FORMAT)
                          \o "-" \o t.strike \o "-" \o OptionKind_fmt(t.kind))
                ELSE None
      [] t.tag = "Spot" -> Some("s." \o t.base \o "-" \o t.quote)
      [] t.tag = "Perpetual" -> Some("p." \o t.base \o "-" \o t.quote)

\* Display for Instrument
Instrument_fmt(i) ==
    LET inner == InstrumentType_fmt(i.instrument_type)
    IN  IF IsSome(inner)
        THEN Some(MarketType_fmt(i.market_type) \o "." \o Unwrap(inner)
                  \o "." \o Exchange_fmt(i.exchange))
        ELSE None

\* Instrument::is_expired: an expiry that does not parse is logged and the
\* instrument counts as not expired
Instrument_is_expired(i, clock) ==
    LET t == i.instrument_type
    IN  IF t.tag = "Option" \/ t.tag = "Future"
        THEN LET r == is_date_expired(t.expiry, clock)
             IN  IF r.err = "" THEN Unwrap(r.value) ELSE FALSE
        ELSE FALSE

\* InstrumentType::from_str
InstrumentType_from_str(kind, instrument_name) ==
    LET parts == split(instrument_name, "-")
        k     == trim(kind)
    IN  IF eq_ignore_ascii_case(k, "o") \/ eq_ignore_ascii_case(k, "option")
        THEN IF Len(parts) = 5
             THEN LET option_kind == OptionKind_try_from(parts[5])
                      strike      == parse_u64(parts[4])
                  IN  IF ~IsSome(option_kind) THEN None
                      ELSE IF ~IsSome(strike) THEN None
                      ELSE Some(Option(Currency_new(parts[1]),
                                       Currency_new(parts[2]), parts[3],
                                       Unwrap(strike), Unwrap(option_kind)))
             ELSE None
        ELSE IF eq_ignore_ascii_case(k, "f") \/ eq_ignore_ascii_case(k, "future")
        THEN IF Len(parts) = 3
             THEN Some(Future(Currency_new(parts[1]), Currency_new(parts[2]),
                              parts[3]))
             ELSE None
        ELSE IF eq_ignore_ascii_case(k, "p") \/ eq_ignore_ascii_case(k, "perpetual")
        THEN IF Len(parts) = 2
             THEN Some(Perpetual(Currency_new(parts[1]), Currency_new(parts[2])))
             ELSE None
        ELSE IF eq_ignore_ascii_case(k, "s") \/ eq_ignore_ascii_case(k, "spot")
        THEN IF Len(parts) = 2
             THEN Some(Spot(Currency_new(parts[1]), Currency_new(parts[2])))
             ELSE None
        ELSE None

(***************************************************************************)
(* The venue handlers.                                                     *)
(***************************************************************************)
DERIBIT_DEFAULT_QUOTE_CURRENCY == "usd"
DERIBIT_DEFAULT_EXPIRY_FORMAT == "%d%b%y"
DERIVE_DEFAULT_QUOTE_CURRENCY == "usd"
DERIVE_DEFAULT_EXPIRY_FORMAT == "%Y%m%d"
AEVO_DEFAULT_QUOTE_CURRENCY == "usdc"
AEVO_DEFAULT_EXPIRY_FORMAT == "%d%b%y"

\* the trait's defaults accept everything; Aevo, Dydx and Paradex override
\* the market types, Derive, Aevo, Dydx and Paradex the instrument types
supports_market_type(e, m) ==
    CASE e = "Aevo" -> m = "OrderBook" \/ m = "Ticker"
      [] e = "Dydx" -> m = "OrderBook"
      [] e = "Paradex" -> m = "OrderBook"
      [] OTHER -> TRUE

\* mutant: no venue overrides the trait's default
supports_instrument_type_default(e, t) == TRUE

supports_instrument_type(e, t) ==
    CASE e = "Derive" -> t.tag = "Option" \/ t.tag = "Perpetual"
      [] e = "Aevo" -> t.tag = "Perpetual" \/ t.tag = "Option"
      [] e = "Dydx" -> t.tag = "Perpetual"
      [] e = "Paradex" -> t.tag = "Perpetual"
      [] OTHER -> TRUE

\* mutant: a strike that does not parse is taken as zero
OptionArm_strike_defaulted(e, mt, parts, format, default_quote) ==
    IF ~IsSome(parse_expiry_date(parts[2], format)) THEN None
    ELSE LET strike == parse_u64(parts[3])
             kind   == OptionKind_try_from(parts[4])
             normalized_expiry == normalize_expiry(parts[2])
         IN  IF ~IsSome(kind) THEN None
             ELSE IF ~IsSome(normalized_expiry) THEN None
             ELSE Some(Instrument_new(e, mt,
                        Option(Currency_new(parts[1]),
                               Currency_new(default_quote),
                               Unwrap(normalized_expiry),
                               IF IsSome(strike) THEN Unwrap(strike) ELSE "0",
                               Unwrap(kind))))

\* the four-token option arm shared, line for line, by Deribit, Derive and
\* Aevo: expiry in the venue's format, strike, kind, then normalize_expiry
OptionArm(e, mt, parts, format, default_quote) ==
    IF ~IsSome(parse_expiry_date(parts[2], format)) THEN None
    ELSE LET strike == parse_u64(parts[3])
             kind   == OptionKind_try_from(parts[4])
             normalized_expiry == normalize_expiry(parts[2])
         IN  IF ~IsSome(strike) THEN None
             ELSE IF ~IsSome(kind) THEN None
             ELSE IF ~IsSome(normalized_expiry) THEN None
             ELSE Some(Instrument_new(e, mt,
                        Option(Currency_new(parts[1]),
                               Currency_new(default_quote),
                               Unwrap(normalized_expiry),
                               Unwrap(strike), Unwrap(kind))))

\* mutant: the quote is the venue's default whatever the first token holds
PerpetualArm_default_quote(e, mt, base_quote, default_quote) ==
    Some(Instrument_new(e, mt,
            Perpetual(Currency_new(base_quote), Currency_new(default_quote))))

\* BASE-KEYWORD or BASE_QUOTE-KEYWORD, shared by Deribit and Aevo
PerpetualArm(e, mt, base_quote, default_quote) ==
    LET bq    == split_once(base_quote, "_")
        base  == IF IsSome(bq) THEN Unwrap(bq)[1] ELSE base_quote
        quote == IF IsSome(bq) THEN Unwrap(bq)[2] ELSE default_quote
    IN  Some(Instrument_new(e, mt,
                Perpetual(Currency_new(base), Currency_new(quote))))

DeribitHandler_normalize(mt, instrument_name) ==
    LET parts == split(instrument_name, "-")
    IN  IF Len(parts) = 2 /\ eq_ignore_ascii_case(parts[2], "perpetual")
        THEN PerpetualArm("Deribit", mt, parts[1], DERIBIT_DEFAULT_QUOTE_CURRENCY)
        ELSE IF /\ Len(parts) = 2
                /\ IsSome(parse_expiry_date(parts[2], DERIBIT_DEFAULT_EXPIRY_FORMAT))
        THEN LET normalized_expiry == normalize_expiry(parts[2])
             IN  IF ~IsSome(normalized_expiry) THEN None
                 ELSE Some(Instrument_new("Deribit", mt,
                        Future(Currency_new(parts[1]),
                               Currency_new(DERIBIT_DEFAULT_QUOTE_CURRENCY),
                               Unwrap(normalized_expiry))))
        ELSE IF Len(parts) = 4
        THEN OptionArm("Deribit", mt, parts, DERIBIT_DEFAULT_EXPIRY_FORMAT,
                       DERIBIT_DEFAULT_QUOTE_CURRENCY)
        ELSE IF Len(parts) = 1
        THEN LET sp == split(parts[1], "_")
             IN  IF Len(sp) # 2 THEN None
                 ELSE Some(Instrument_new("Deribit", mt,
                        Spot(Currency_new(sp[1]), Currency_new(sp[2]))))
        ELSE None

\* mutant: a perpetual's quote is never written
DeribitHandler_denormalize_quote_dropped(i) ==
    IF i.exchange # "Deribit" THEN None
    ELSE LET t == i.instrument_type
         IN  CASE t.tag = "Future" ->
                    Some(t.base \o "-"
                         \o denormalize_expiry(t.expiry, DERIBIT_DEFAULT_EXPIRY_FORMAT))
               [] t.tag = "Option" ->
                    Some(t.base \o "-"
                         \o denormalize_expiry(t.expiry, DERIBIT_DEFAULT_EXPIRY_FORMAT)
                         \o "-" \o t.strike \o "-" \o OptionKind_fmt(t.kind))
               [] t.tag = "Spot" -> Some(t.base \o "_" \o t.quote)
               [] t.tag = "Perpetual" -> Some(t.base \o "-PERPETUAL")

\* mutant: spot instruments are turned away, as the other venues do
DeribitHandler_denormalize_no_spot(i) ==
    IF i.exchange # "Deribit" THEN None
    ELSE LET t == i.instrument_type
         IN  CASE t.tag = "Future" ->
                    Some(t.base \o "-"
                         \o denormalize_expiry(t.expiry, DERIBIT_DEFAULT_EXPIRY_FORMAT))
               [] t.tag = "Option" ->
                    Some(t.base \o "-"
                         \o denormalize_expiry(t.expiry, DERIBIT_DEFAULT_EXPIRY_FORMAT)
                         \o "-" \o t.strike \o "-" \o OptionKind_fmt(t.kind))
               [] t.tag = "Spot" -> None
               [] t.tag = "Perpetual" ->
                    IF eq_ignore_ascii_case(t.quote, DERIBIT_DEFAULT_QUOTE_CURRENCY)
                    THEN Some(t.base \o "-PERPETUAL")
                    ELSE Some(t.base \o "_" \o t.quote \o "-PERPETUAL")

DeribitHandler_denormalize(i) ==
    IF i.exchange # "Deribit" THEN None
    ELSE LET t == i.instrument_type
         IN  CASE t.tag = "Future" ->
                    Some(t.base \o "-"
                         \o denormalize_expiry(t.expiry, DERIBIT_DEFAULT_EXPIRY_FORMAT))
               [] t.tag = "Option" ->
                    Some(t.base \o "-"
                         \o denormalize_expiry(t.expiry, DERIBIT_DEFAULT_EXPIRY_FORMAT)
                         \o "-" \o t.strike \o "-" \o OptionKind_fmt(t.kind))
               [] t.tag = "Spot" -> Some(t.base \o "_" \o t.quote)
               [] t.tag = "Perpetual" ->
                    IF eq_ignore_ascii_case(t.quote, DERIBIT_DEFAULT_QUOTE_CURRENCY)
                    THEN Some(t.base \o "-PERPETUAL")
                    ELSE Some(t.base \o "_" \o t.quote \o "-PERPETUAL")

DeriveHandler_normalize(mt, instrument_name) ==
    LET parts == split(instrument_name, "-")
    IN  IF Len(parts) = 2 /\ (parts[2] = "perp" \/ parts[2] = "PERP")
        THEN Some(Instrument_new("Derive", mt,
                Perpetual(Currency_new(parts[1]),
                          Currency_new(DERIVE_DEFAULT_QUOTE_CURRENCY))))
        ELSE IF Len(parts) = 4
        THEN OptionArm("Derive", mt, parts, DERIVE_DEFAULT_EXPIRY_FORMAT,
                       DERIVE_DEFAULT_QUOTE_CURRENCY)
        ELSE None

\* mutant: the exchange tag is not looked at
DeriveHandler_denormalize_any_exchange(i) ==
    LET t == i.instrument_type
    IN  IF ~supports_instrument_type("Derive", t) THEN None
        ELSE IF t.tag = "Option"
        THEN Some(t.base \o "-"
                  \o denormalize_expiry(t.expiry, DERIVE_DEFAULT_EXPIRY_FORMAT)
                  \o "-" \o t.strike \o "-" \o OptionKind_fmt(t.kind))
        ELSE IF t.tag = "Perpetual" THEN Some(t.base \o "-PERP")
        ELSE None

DeriveHandler_denormalize(i) ==
    LET t == i.instrument_type
    IN  IF i.exchange # "Derive" THEN None
        ELSE IF ~supports_instrument_type("Derive", t) THEN None
        ELSE IF t.tag = "Option"
        THEN Some(t.base \o "-"
                  \o denormalize_expiry(t.expiry, DERIVE_DEFAULT_EXPIRY_FORMAT)
                  \o "-" \o t.strike \o "-" \o OptionKind_fmt(t.kind))
        ELSE IF t.tag = "Perpetual" THEN Some(t.base \o "-PERP")
        ELSE None

\* mutant: the market type is not checked before the name is read
Aevohandler_normalize_unguarded(mt, instrument_name) ==
    LET parts == split(instrument_name, "-")
    IN  IF Len(parts) = 2 /\ eq_ignore_ascii_case(parts[2], "perp")
        THEN PerpetualArm("Aevo", mt, parts[1], AEVO_DEFAULT_QUOTE_CURRENCY)
        ELSE IF Len(parts) = 4
        THEN OptionArm("Aevo", mt, parts, AEVO_DEFAULT_EXPIRY_FORMAT,
                       AEVO_DEFAULT_QUOTE_CURRENCY)
        ELSE None

Aevohandler_normalize(mt, instrument_name) ==
    LET parts == split(instrument_name, "-")
    IN  IF ~supports_market_type("Aevo", mt) THEN None
        ELSE IF Len(parts) = 2 /\ eq_ignore_ascii_case(parts[2], "perp")
        THEN PerpetualArm("Aevo", mt, parts[1], AEVO_DEFAULT_QUOTE_CURRENCY)
        ELSE IF Len(parts) = 4
        THEN OptionArm("Aevo", mt, parts, AEVO_DEFAULT_EXPIRY_FORMAT,
                       AEVO_DEFAULT_QUOTE_CURRENCY)
        ELSE None

Aevohandler_denormalize(i) ==
    LET t == i.instrument_type
    IN  IF i.exchange # "Aevo" THEN None
        ELSE IF ~supports_instrument_type("Aevo", t) THEN None
        ELSE IF ~supports_market_type("Aevo", i.market_type) THEN None
        ELSE IF t.tag = "Option"
        THEN Some(t.base \o "-"
                  \o denormalize_expiry(t.expiry, AEVO_DEFAULT_EXPIRY_FORMAT)
                  \o "-" \o t.strike \o "-" \o OptionKind_fmt(t.kind))
        ELSE IF t.tag = "Perpetual" THEN Some(t.base \o "-PERP")
        ELSE None

\* mutant: the market type is not checked before the name is read
DydxHandler_normalize_unguarded(mt, instrument_name) ==
    LET parts == split(instrument_name, "-")
    IN  IF Len(parts) = 2
        THEN Some(Instrument_new("Dydx", mt,
                Perpetual(Currency_new(parts[1]), Currency_new(parts[2]))))
        ELSE None

DydxHandler_normalize(mt, instrument_name) ==
    LET parts == split(instrument_name, "-")
    IN  IF ~supports_market_type("Dydx", mt) THEN None
        ELSE IF Len(parts) = 2
        THEN Some(Instrument_new("Dydx", mt,
                Perpetual(Currency_new(parts[1]), Currency_new(parts[2]))))
        ELSE None

DydxHandler_denormalize(i) ==
    LET t == i.instrument_type
    IN  IF i.exchange # "Dydx" THEN None
        ELSE IF ~supports_instrument_type("Dydx", t) THEN None
        ELSE IF ~supports_market_type("Dydx", i.market_type) THEN None
        ELSE IF t.tag = "Perpetual" THEN Some(t.base \o "-" \o t.quote)
        ELSE None

\* mutant: any third token is taken for the perpetual keyword
ParadexHandler_normalize_any_keyword(mt, instrument_name) ==
    LET parts == split(instrument_name, "-")
    IN  IF ~supports_market_type("Paradex", mt) THEN None
        ELSE IF Len(parts) = 3
        THEN Some(Instrument_new("Paradex", mt, Perpetual(parts[1], parts[2])))
        ELSE None

\* Paradex builds its currencies with the tuple constructor, not
\* Currency::new: the tokens are stored as written
ParadexHandler_normalize(mt, instrument_name) ==
    LET parts == split(instrument_name, "-")
    IN  IF ~supports_market_type("Paradex", mt) THEN None
        ELSE IF Len(parts) = 3 /\ (parts[3] = "perp" \/ parts[3] = "PERP")
        THEN Some(Instrument_new("Paradex", mt, Perpetual(parts[1], parts[2])))
        ELSE None

ParadexHandler_denormalize(i) ==
    LET t == i.instrument_type
    IN  IF i.exchange # "Paradex" THEN None
        ELSE IF ~supports_instrument_type("Paradex", t) THEN None
        ELSE IF ~supports_market_type("Paradex", i.market_type) THEN None
        ELSE IF t.tag = "Perpetual"
        THEN Some(t.base \o "-" \o t.quote \o "-PERP")
        ELSE None

\* Exchange::handler, then the trait method of the handler found
normalize(e, mt, instrument_name) ==
    CASE e = "Deribit" -> DeribitHandler_normalize(mt, instrument_name)
      [] e = "Dydx"    -> DydxHandler_normalize(mt, instrument_name)
      [] e = "Derive"  -> DeriveHandler_normalize(mt, instrument_name)
      [] e = "Paradex" -> ParadexHandler_normalize(mt, instrument_name)
      [] e = "Aevo"    -> Aevohandler_normalize(mt, instrument_name)

\* mutant: the handler looked up is kept in one slot shared by all callers,
\* and a call begun meanwhile for another venue has overwritten it
denormalize_shared_handler(e, i) ==
    LET others == {t \in DOMAIN threads :
                      /\ threads[t].pc = "calling"
                      /\ threads[t].request.handler \notin {"", e}}
        slot   == IF others = {} THEN e
                  ELSE threads[CHOOSE t \in others : TRUE].request.handler
    IN  CASE slot = "Deribit" -> DeribitHandler_denormalize(i)
          [] slot = "Dydx"    -> DydxHandler_denormalize(i)
          [] slot = "Derive"  -> DeriveHandler_denormalize(i)
          [] slot = "Paradex" -> ParadexHandler_denormalize(i)
          [] slot = "Aevo"    -> Aevohandler_denormalize(i)

denormalize(e, i) ==
    CASE e = "Deribit" -> DeribitHandler_denormalize(i)
      [] e = "Dydx"    -> DydxHandler_denormalize(i)
      [] e = "Derive"  -> DeriveHandler_denormalize(i)
      [] e = "Paradex" -> ParadexHandler_denormalize(i)
      [] e = "Aevo"    -> Aevohandler_denormalize(i)

(***************************************************************************)
(* The standard format codec.                                              *)
(***************************************************************************)
\* mutant: the candidate is returned without asking the handler
parse_standard_format_unvalidated(instrument_str) ==
    LET parts == split(instrument_str, ".")
    IN  IF Len(parts) # 4 THEN Err("InvalidFormat")
        ELSE LET exchange == Exchange_try_from(parts[4])
                 mt       == MarketType_try_from(parts[1])
                 instrument_type == InstrumentType_from_str(parts[2], parts[3])
             IN  IF ~IsSome(exchange) THEN Err("ParseError")
                 ELSE IF ~IsSome(mt) THEN Err("ParseError")
                 ELSE IF ~IsSome(instrument_type) THEN Err("InvalidFormat")
                 ELSE Ok(Instrument_new(Unwrap(exchange), Unwrap(mt),
                                        Unwrap(instrument_type)))

\* mutant: an inner name that does not parse is reported as ParseError
parse_standard_format_parse_error(instrument_str) ==
    LET parts == split(instrument_str, ".")
    IN  IF Len(parts) # 4 THEN Err("InvalidFormat")
        ELSE LET exchange == Exchange_try_from(parts[4])
                 mt       == MarketType_try_from(parts[1])
                 instrument_type == InstrumentType_from_str(parts[2], parts[3])
             IN  IF ~IsSome(exchange) THEN Err("ParseError")
                 ELSE IF ~IsSome(mt) THEN Err("ParseError")
                 ELSE IF ~IsSome(instrument_type) THEN Err("ParseError")
                 ELSE LET i == Instrument_new(Unwrap(exchange), Unwrap(mt),
                                              Unwrap(instrument_type))
                      IN  IF IsSome(denormalize(Unwrap(exchange), i))
                          THEN Ok(i)
                          ELSE Err("UnsupportedByExchange")

parse_standard_format(instrument_str) ==
    LET parts == split(instrument_str, ".")
    IN  IF Len(parts) # 4 THEN Err("InvalidFormat")
        ELSE LET exchange == Exchange_try_from(parts[4])
                 mt       == MarketType_try_from(parts[1])
                 instrument_type == InstrumentType_from_str(parts[2], parts[3])
             IN  IF ~IsSome(exchange) THEN Err("ParseError")
                 ELSE IF ~IsSome(mt) THEN Err("ParseError")
                 ELSE IF ~IsSome(instrument_type) THEN Err("InvalidFormat")
                 ELSE LET i == Instrument_new(Unwrap(exchange), Unwrap(mt),
                                              Unwrap(instrument_type))
                      IN  IF IsSome(denormalize(Unwrap(exchange), i))
                          THEN Ok(i)
                          ELSE Err("UnsupportedByExchange")

\* mutant: every parsed instrument is handed to the Deribit handler
to_exchange_format_fixed_handler(instrument_str) ==
    LET r == parse_standard_format(instrument_str)
    IN  IF r.err = "" THEN DeribitHandler_denormalize(Unwrap(r.value))
        ELSE None

to_exchange_format(instrument_str) ==
    LET r == parse_standard_format(instrument_str)
    IN  IF r.err = "" THEN denormalize(Unwrap(r.value).exchange, Unwrap(r.value))
        ELSE None

(***************************************************************************)
(* The inputs callers pass.  Venue names and canonical texts are put       *)
(* together from tokens, well-formed and malformed, so that every arm of   *)
(* every grammar is entered and every rejection is met.                    *)
(***************************************************************************)
MaxTokens == 4
MaxFields == 5

\* all sequences of 1..n elements of S
TokenSeqs(S, n) == UNION {[1..k -> S] : k \in 1..n}

GenericTokens == {"BTC", "USD", "PERP"}
BaseTokens == {"BTC", "btc", "SOL_USDC", "BTC_USD", "Eth_usdc"}
PlainBases == {"BTC", "btc"}
QuoteTokens == {"USD", "usd", "USDC"}
PerpKeywords == {"PERPETUAL", "perpetual", "PERP", "perp", "Perp"}
DateTokens == {"28MAR25", "28mar25", "8MAR25", "31FEB25", "01JAN70",
               "20250328", "2025031", "28MAR2025"}
StrikeTokens == {"100000", "0", "0100", "+5", "1x", "",
                 "18446744073709551615", "18446744073709551616"}
KindTokens == {"C", "P", "c", "CALL", "put", "X"}

RawNames ==
    {join(ts, "-") : ts \in TokenSeqs(GenericTokens, MaxTokens)}
    \cup BaseTokens \cup {"A_B_C", "BTC-USD-20250528"}
    \cup {b \o "-" \o k : b \in BaseTokens, k \in PerpKeywords}
    \cup {b \o "-" \o d : b \in BaseTokens, d \in DateTokens}
    \cup {b \o "-" \o q : b \in PlainBases, q \in QuoteTokens}
    \cup {b \o "-" \o q \o "-" \o k :
            b \in PlainBases, q \in QuoteTokens, k \in PerpKeywords}
    \cup {"BTC-" \o d \o "-" \o s \o "-" \o k :
            d \in DateTokens, s \in StrikeTokens, k \in KindTokens}
    \cup {"A_B_C-PERPETUAL", "A_B_C-perp", "_USD-PERP", "BTC_-Perpetual"}
    \cup {"btc-28mar25-100000-c", "btc-20250328-100000-p",
          "BTC-USD-20250328-100000-C", "BTC-PERP", "B.TC-USD", ""}

\* instruments a caller can build with Instrument::new and Currency::new
CallerBases == {Currency_new(c) : c \in {"BTC", "sol"}}
CallerQuotes == {Currency_new(c) : c \in {"USD", "usdc"}}
CallerExpiries == {"20250328", "2025031", "bad"}
CallerInstrumentTypes ==
    {Perpetual(b, q) : b \in CallerBases, q \in CallerQuotes}
    \cup {Spot(b, q) : b \in CallerBases, q \in CallerQuotes}
    \cup {Future(b, q, x) :
            b \in CallerBases, q \in CallerQuotes, x \in CallerExpiries}
    \cup {Option(b, q, x, "100000", k) :
            b \in CallerBases, q \in CallerQuotes, x \in CallerExpiries,
            k \in OptionKind}
CallerInstruments ==
    {Instrument_new(e, m, t) :
        e \in Exchange, m \in MarketType, t \in CallerInstrumentTypes}

MarketCodes == {"o", "O", "p", "t", "f", "x"}
KindCodes == {"o", "f", "s", "p", "O", "option", "z"}
InnerNames == {"BTC-USD", "btc-usd", "SOL-USDC", "BTC",
               "btc-usd-20250328-100000-put",
               "BTC-USD-20250328", "BTC-USD-bad", "BTC-USD-2025031",
               "BTC-USD-20250328-100000-C", "BTC-USD-20250328-100000-put",
               "BTC-USD-20250328-100000-X", "BTC-USD-20250328-1x-C",
               "BTC-USD-bad-100000-C", "BTC-USD-20250528-100000-C"}
ExchangeNames == {"deribit", "Deribit", " aevo ", "aevo", "dydx", "derive",
                  "paradex", "binance"}
FieldTokens == {"o", "BTC-USD", "deribit"}

CanonicalTexts ==
    {m \o "." \o k \o "." \o n \o "." \o x :
        m \in MarketCodes, k \in KindCodes, n \in InnerNames,
        x \in ExchangeNames}
    \cup {join(fs, ".") : fs \in TokenSeqs(FieldTokens, MaxFields)}

(***************************************************************************)
(* Clock readings and expiry texts for the expiry check.                   *)
(***************************************************************************)
DateTexts == {"20250328", "20250229", "20240229", "2025031", " 20250328",
              "28MAR25", "bad", ""}
ClockDates == {[year |-> 2025, month |-> 2, day |-> 28],
               [year |-> 2025, month |-> 3, day |-> 1],
               [year |-> 2025, month |-> 3, day |-> 27],
               [year |-> 2025, month |-> 3, day |-> 28],
               [year |-> 2025, month |-> 3, day |-> 29]}
ClockMillis == {0, END_OF_DAY_MILLI - 1, END_OF_DAY_MILLI}
ClockNanos == {0, 1}
Clocks == {and_time(d, m, n) : d \in ClockDates, m \in ClockMillis,
                               n \in ClockNanos}
\* the clock's reading when the program starts
FirstReading ==
    and_time([year |-> 2025, month |-> 2, day |-> 28], 0, 0)
ExpiryInstruments ==
    {Instrument_new("Deribit", "OrderBook", t) : t \in CallerInstrumentTypes}

\* expiry texts in the three accepted formats, and texts in none of them
ExpiryTexts ==
    DateTokens \cup {"28MAR0205", "29FEB24", "29FEB2023", "31DEC69",
                     "20241231", "00010101", "1JAN2025", "bad", ""}
\* texts handed to denormalize_expiry: what normalize_expiry returns, and
\* texts it never returns
StoredExpiries ==
    {Unwrap(normalize_expiry(s)) :
        s \in {x \in ExpiryTexts : IsSome(normalize_expiry(x))}}
    \cup {"bad", "", "28MAR25"}
\* currency symbols in several letter cases
Symbols == {"BTC", "btc", "Btc", "bTC", "usd", "USD", "Usdc", "USDC", "sol",
            "eth", "doge", "DOGE", "Doge", "btc1", " btc", "BTC_usd", ""}
\* venue names in several letter cases, padded, and texts naming no venue
VenueTexts ==
    {"deribit", "Deribit", "DERIBIT", " aevo ", "AEVO", "aevo\n", "dydx",
     "DyDx", "\tderive", "Derive", "paradex", " PARADEX  ", "binance",
     "deri bit", "deribit2", "xdydx", "", " "}
TargetFormats == {ExpiryFormats[k] : k \in 1..Len(ExpiryFormats)}

\* expiry texts and instruments checked again and again as time passes
TimedDates == {"20250328", "2025031", "bad"}
TimedInstruments ==
    {i \in ExpiryInstruments :
        i.instrument_type.base = "BTC" /\ i.instrument_type.quote = "USD"}

(***************************************************************************)
(* Concurrent callers.  A request is one call with its arguments; threads  *)
(* issue requests from a short list of calls that succeed and calls that   *)
(* fail.                                                                   *)
(***************************************************************************)
MaxThreads == 2
Threads == 1..MaxThreads

Request(o, e, mt, text, i) ==
    [op |-> o, handler |-> e, market_type |-> mt, name |-> text,
     instrument |-> i]

Requests ==
    {Request("normalize", "Deribit", "OrderBook", "BTC-28MAR25-100000-C", None),
     Request("normalize", "Dydx", "Ticker", "BTC-USD", None),
     Request("denormalize", "Deribit", "", "",
             Some(Instrument_new("Deribit", "OrderBook",
                                 Perpetual("SOL", "USDC")))),
     Request("denormalize", "Derive", "", "",
             Some(Instrument_new("Deribit", "OrderBook",
                                 Perpetual("SOL", "USDC")))),
     Request("parse_standard_format", "", "", "o.s.BTC-USD.dydx", None),
     Request("to_exchange_format", "", "", "o.p.BTC-USD.paradex", None)}

NoRequest == Request("none", "", "", "", None)
Reply(i, text, e) == [instrument |-> i, name |-> text, err |-> e]
NoReply == Reply(None, None, "")

\* the public operation a request names, applied to the request's arguments
Serve(r) ==
    CASE r.op = "normalize" ->
            Reply(normalize(r.handler, r.market_type, r.name), None, "")
      [] r.op = "denormalize" ->
            Reply(None, denormalize(r.handler, Unwrap(r.instrument)), "")
      [] r.op = "parse_standard_format" ->
            LET parsed == parse_standard_format(r.name)
            IN  Reply(parsed.value, None, parsed.err)
      [] r.op = "to_exchange_format" ->
            Reply(None, to_exchange_format(r.name), "")

(***************************************************************************)
(* The state machine: a caller, idle, makes one call of a public           *)
(* operation; the call runs to its result; the caller takes the result     *)
(* and is idle again.  An instrument just returned can be rendered to      *)
(* canonical text before it is let go.                                     *)
(***************************************************************************)
Init ==
    /\ pc = "idle"
    /\ op = "none"
    /\ handler = ""
    /\ market_type = ""
    /\ name = ""
    /\ pattern = ""
    /\ instrument = None
    /\ now = None
    /\ out_instrument = None
    /\ out_name = None
    /\ out_bool = None
    /\ out_err = ""
    /\ threads = [t \in Threads |->
                    [pc |-> "idle", request |-> NoRequest, reply |-> NoReply]]
    /\ completed = [r \in Requests |-> None]
    /\ wall_clock = FirstReading
    /\ expired = {}

\* handler.normalize(market_type, raw_name)
Normalize(e, mt, raw) ==
    /\ pc = "idle"
    /\ pc' = "done"
    /\ op' = "normalize"
    /\ handler' = e
    /\ market_type' = mt
    /\ name' = raw
    /\ pattern' = ""
    /\ instrument' = None
    /\ now' = None
    /\ out_instrument' = normalize(e, mt, raw)
    /\ out_name' = None
    /\ out_bool' = None
    /\ out_err' = ""
    /\ UNCHANGED <<threads, completed, wall_clock, expired>>

\* handler.denormalize(&instrument)
Denormalize(e, i) ==
    /\ pc = "idle"
    /\ pc' = "done"
    /\ op' = "denormalize"
    /\ handler' = e
    /\ market_type' = ""
    /\ name' = ""
    /\ pattern' = ""
    /\ instrument' = Some(i)
    /\ now' = None
    /\ out_instrument' = None
    /\ out_name' = denormalize(e, i)
    /\ out_bool' = None
    /\ out_err' = ""
    /\ UNCHANGED <<threads, completed, wall_clock, expired>>

\* handler.supports_market_type(&market_type)
SupportsMarketType(e, mt) ==
    /\ pc = "idle"
    /\ pc' = "done"
    /\ op' = "supports_market_type"
    /\ handler' = e
    /\ market_type' = mt
    /\ name' = ""
    /\ pattern' = ""
    /\ instrument' = None
    /\ now' = None
    /\ out_instrument' = None
    /\ out_name' = None
    /\ out_bool' = Some(supports_market_type(e, mt))
    /\ out_err' = ""
    /\ UNCHANGED <<threads, completed, wall_clock, expired>>

\* handler.supports_instrument_type(&instrument.instrument_type)
SupportsInstrumentType(e, i) ==
    /\ pc = "idle"
    /\ pc' = "done"
    /\ op' = "supports_instrument_type"
    /\ handler' = e
    /\ market_type' = ""
    /\ name' = ""
    /\ pattern' = ""
    /\ instrument' = Some(i)
    /\ now' = None
    /\ out_instrument' = None
    /\ out_name' = None
    /\ out_bool' = Some(supports_instrument_type(e, i.instrument_type))
    /\ out_err' = ""
    /\ UNCHANGED <<threads, completed, wall_clock, expired>>

\* parse_standard_format(text)
ParseStandardFormat(text) ==
    /\ pc = "idle"
    /\ pc' = "done"
    /\ op' = "parse_standard_format"
    /\ handler' = ""
    /\ market_type' = ""
    /\ name' = text
    /\ pattern' = ""
    /\ instrument' = None
    /\ now' = None
    /\ out_instrument' = parse_standard_format(text).value
    /\ out_name' = None
    /\ out_bool' = None
    /\ out_err' = parse_standard_format(text).err
    /\ UNCHANGED <<threads, completed, wall_clock, expired>>

\* to_exchange_format(text)
ToExchangeFormat(text) ==
    /\ pc = "idle"
    /\ pc' = "done"
    /\ op' = "to_exchange_format"
    /\ handler' = ""
    /\ market_type' = ""
    /\ name' = text
    /\ pattern' = ""
    /\ instrument' = None
    /\ now' = None
    /\ out_instrument' = None
    /\ out_name' = to_exchange_format(text)
    /\ out_bool' = None
    /\ out_err' = ""
    /\ UNCHANGED <<threads, completed, wall_clock, expired>>

\* is_date_expired(date_str), the clock reading clock
IsDateExpired(date_str, clock) ==
    /\ pc = "idle"
    /\ pc' = "done"
    /\ op' = "is_date_expired"
    /\ handler' = ""
    /\ market_type' = ""
    /\ name' = date_str
    /\ pattern' = ""
    /\ instrument' = None
    /\ now' = Some(clock)
    /\ out_instrument' = None
    /\ out_name' = None
    /\ out_bool' = is_date_expired(date_str, clock).value
    /\ out_err' = is_date_expired(date_str, clock).err
    /\ UNCHANGED <<threads, completed, wall_clock, expired>>

\* instrument.is_expired(), the clock reading clock
IsExpired(i, clock) ==
    /\ pc = "idle"
    /\ pc' = "done"
    /\ op' = "is_expired"
    /\ handler' = ""
    /\ market_type' = ""
    /\ name' = ""
    /\ pattern' = ""
    /\ instrument' = Some(i)
    /\ now' = Some(clock)
    /\ out_instrument' = None
    /\ out_name' = None
    /\ out_bool' = Some(Instrument_is_expired(i, clock))
    /\ out_err' = ""
    /\ UNCHANGED <<threads, completed, wall_clock, expired>>

\* normalize_expiry(date_str)
NormalizeExpiry(date_str) ==
    /\ pc = "idle"
    /\ pc' = "done"
    /\ op' = "normalize_expiry"
    /\ handler' = ""
    /\ market_type' = ""
    /\ name' = date_str
    /\ pattern' = ""
    /\ instrument' = None
    /\ now' = None
    /\ out_instrument' = None
    /\ out_name' = normalize_expiry(date_str)
    /\ out_bool' = None
    /\ out_err' = ""
    /\ UNCHANGED <<threads, completed, wall_clock, expired>>

\* denormalize_expiry(date_str, fmt)
DenormalizeExpiry(date_str, fmt) ==
    /\ pc = "idle"
    /\ pc' = "done"
    /\ op' = "denormalize_expiry"
    /\ handler' = ""
    /\ market_type' = ""
    /\ name' = date_str
    /\ pattern' = fmt
    /\ instrument' = None
    /\ now' = None
    /\ out_instrument' = None
    /\ out_name' = Some(denormalize_expiry(date_str, fmt))
    /\ out_bool' = None
    /\ out_err' = ""
    /\ UNCHANGED <<threads, completed, wall_clock, expired>>

\* Currency::new(symbol); the result is given by its text
CurrencyNew(symbol) ==
    /\ pc = "idle"
    /\ pc' = "done"
    /\ op' = "Currency::new"
    /\ handler' = ""
    /\ market_type' = ""
    /\ name' = symbol
    /\ pattern' = ""
    /\ instrument' = None
    /\ now' = None
    /\ out_instrument' = None
    /\ out_name' = Some(Currency_new(symbol))
    /\ out_bool' = None
    /\ out_err' = ""
    /\ UNCHANGED <<threads, completed, wall_clock, expired>>

\* Exchange::try_from(value): the venue, or the error message
ExchangeTryFrom(value) ==
    /\ pc = "idle"
    /\ pc' = "done"
    /\ op' = "Exchange::try_from"
    /\ handler' = ""
    /\ market_type' = ""
    /\ name' = value
    /\ pattern' = ""
    /\ instrument' = None
    /\ now' = None
    /\ out_instrument' = None
    /\ out_name' = Exchange_try_from(value)
    /\ out_bool' = None
    /\ out_err' = IF IsSome(Exchange_try_from(value)) THEN ""
                  ELSE "Invalid exchange name: " \o value
    /\ UNCHANGED <<threads, completed, wall_clock, expired>>

\* format!("{}", exchange)
ExchangeFmt(e) ==
    /\ pc = "idle"
    /\ pc' = "done"
    /\ op' = "Exchange::fmt"
    /\ handler' = e
    /\ market_type' = ""
    /\ name' = ""
    /\ pattern' = ""
    /\ instrument' = None
    /\ now' = None
    /\ out_instrument' = None
    /\ out_name' = Some(Exchange_fmt(e))
    /\ out_bool' = None
    /\ out_err' = ""
    /\ UNCHANGED <<threads, completed, wall_clock, expired>>

\* write!(text, "{}", instrument) on the instrument a call just returned:
\* the text, or the formatter's error
Fmt ==
    /\ pc = "done"
    /\ op \in {"normalize", "parse_standard_format"}
    /\ IsSome(out_instrument)
    /\ pc' = "done"
    /\ op' = "fmt"
    /\ instrument' = out_instrument
    /\ out_instrument' = None
    /\ out_name' = Instrument_fmt(Unwrap(out_instrument))
    /\ out_bool' = None
    /\ out_err' = IF IsSome(Instrument_fmt(Unwrap(out_instrument)))
                  THEN "" ELSE "fmt::Error"
    /\ UNCHANGED <<handler, market_type, name, pattern, now, threads, completed,
                   wall_clock, expired>>

\* parse_standard_format on the text just rendered; the instrument that was
\* rendered stays at hand beside the one parsed
ParseRendered ==
    /\ pc = "done"
    /\ op = "fmt"
    /\ IsSome(out_name)
    /\ pc' = "done"
    /\ op' = "parse_standard_format"
    /\ name' = Unwrap(out_name)
    /\ out_instrument' = parse_standard_format(Unwrap(out_name)).value
    /\ out_name' = None
    /\ out_bool' = None
    /\ out_err' = parse_standard_format(Unwrap(out_name)).err
    /\ UNCHANGED <<handler, market_type, pattern, instrument, now, threads,
                   completed, wall_clock, expired>>

\* the caller takes the result; nothing of the call is kept
Return ==
    /\ pc = "done"
    /\ pc' = "idle"
    /\ op' = "none"
    /\ handler' = ""
    /\ market_type' = ""
    /\ name' = ""
    /\ pattern' = ""
    /\ instrument' = None
    /\ now' = None
    /\ out_instrument' = None
    /\ out_name' = None
    /\ out_bool' = None
    /\ out_err' = ""
    /\ UNCHANGED <<threads, completed, wall_clock, expired>>

\* the inputs of a call are drawn only when the caller is idle
Next ==
    \/ pc = "idle" /\ \E e \in Exchange, mt \in MarketType, raw \in RawNames :
                        Normalize(e, mt, raw)
    \/ pc = "idle" /\ \E e \in Exchange, i \in CallerInstruments :
                        Denormalize(e, i)
    \/ pc = "idle" /\ \E e \in Exchange, mt \in MarketType :
                        SupportsMarketType(e, mt)
    \/ pc = "idle" /\ \E e \in Exchange, i \in ExpiryInstruments :
                        SupportsInstrumentType(e, i)
    \/ pc = "idle" /\ \E text \in CanonicalTexts : ParseStandardFormat(text)
    \/ pc = "idle" /\ \E text \in CanonicalTexts : ToExchangeFormat(text)
    \/ pc = "idle" /\ \E d \in DateTexts, clock \in Clocks :
                        IsDateExpired(d, clock)
    \/ pc = "idle" /\ \E i \in ExpiryInstruments, clock \in Clocks :
                        IsExpired(i, clock)
    \/ pc = "idle" /\ \E d \in ExpiryTexts : NormalizeExpiry(d)
    \/ pc = "idle" /\ \E d \in StoredExpiries, fmt \in TargetFormats :
                        DenormalizeExpiry(d, fmt)
    \/ pc = "idle" /\ \E symbol \in Symbols : CurrencyNew(symbol)
    \/ pc = "idle" /\ \E value \in VenueTexts : ExchangeTryFrom(value)
    \/ pc = "idle" /\ \E e \in Exchange : ExchangeFmt(e)
    \/ Fmt
    \/ ParseRendered
    \/ Return

Spec == Init /\ [][Next]_vars

(***************************************************************************)
(* Several threads calling at once.  A call is in flight between Call and  *)
(* Finish; completed keeps the first reply each request ever got.          *)
(***************************************************************************)
caller == <<pc, op, handler, market_type, name, pattern, instrument, now,
            out_instrument, out_name, out_bool, out_err>>

Call(t, r) ==
    /\ threads[t].pc = "idle"
    /\ threads' = [threads EXCEPT ![t] =
                     [pc |-> "calling", request |-> r, reply |-> NoReply]]
    /\ UNCHANGED <<caller, completed, wall_clock, expired>>

Finish(t) ==
    /\ threads[t].pc = "calling"
    /\ threads' = [threads EXCEPT ![t].pc = "done",
                                  ![t].reply = Serve(threads[t].request)]
    /\ completed' = IF IsSome(completed[threads[t].request]) THEN completed
                     ELSE [completed EXCEPT ![threads[t].request] =
                             Some(threads'[t].reply)]
    /\ UNCHANGED <<caller, wall_clock, expired>>

Take(t) ==
    /\ threads[t].pc = "done"
    /\ threads' = [threads EXCEPT ![t] =
                     [pc |-> "idle", request |-> NoRequest, reply |-> NoReply]]
    /\ UNCHANGED <<caller, completed, wall_clock, expired>>

NextThreads ==
    \/ \E t \in Threads, r \in Requests : Call(t, r)
    \/ \E t \in Threads : Finish(t)
    \/ \E t \in Threads : Take(t)

SpecThreads == Init /\ [][NextThreads]_vars

(***************************************************************************)
(* Expiry checks as time passes.  wall_clock is the reading Utc::now()     *)
(* gives; it only moves forward.  expired keeps the expiry texts for which *)
(* the caller has taken the answer true.                                   *)
(***************************************************************************)
Tick(clock) ==
    /\ IsAfter(clock, wall_clock)
    /\ wall_clock' = clock
    /\ UNCHANGED <<caller, threads, completed, expired>>

\* is_date_expired(date_str), reading the clock
TimedIsDateExpired(date_str) ==
    /\ pc = "idle"
    /\ pc' = "done"
    /\ op' = "is_date_expired"
    /\ handler' = ""
    /\ market_type' = ""
    /\ name' = date_str
    /\ pattern' = ""
    /\ instrument' = None
    /\ now' = Some(wall_clock)
    /\ out_instrument' = None
    /\ out_name' = None
    /\ out_bool' = is_date_expired(date_str, wall_clock).value
    /\ out_err' = is_date_expired(date_str, wall_clock).err
    /\ UNCHANGED <<threads, completed, wall_clock, expired>>

\* instrument.is_expired(), reading the clock
TimedIsExpired(i) ==
    /\ pc = "idle"
    /\ pc' = "done"
    /\ op' = "is_expired"
    /\ handler' = ""
    /\ market_type' = ""
    /\ name' = ""
    /\ pattern' = ""
    /\ instrument' = Some(i)
    /\ now' = Some(wall_clock)
    /\ out_instrument' = None
    /\ out_name' = None
    /\ out_bool' = Some(Instrument_is_expired(i, wall_clock))
    /\ out_err' = ""
    /\ UNCHANGED <<threads, completed, wall_clock, expired>>

\* the expiry text the call at hand is about
CheckedExpiry ==
    IF op = "is_date_expired" THEN name
    ELSE Unwrap(instrument).instrument_type.expiry

\* the caller takes the answer and remembers the expiry if it was true
TimedReturn ==
    /\ pc = "done"
    /\ pc' = "idle"
    /\ op' = "none"
    /\ handler' = ""
    /\ market_type' = ""
    /\ name' = ""
    /\ pattern' = ""
    /\ instrument' = None
    /\ now' = None
    /\ out_instrument' = None
    /\ out_name' = None
    /\ out_bool' = None
    /\ out_err' = ""
    /\ expired' = IF out_bool = Some(TRUE) THEN expired \cup {CheckedExpiry}
                  ELSE expired
    /\ UNCHANGED <<threads, completed, wall_clock>>

NextClock ==
    \/ \E clock \in Clocks : Tick(clock)
    \/ pc = "idle" /\ \E d \in TimedDates : TimedIsDateExpired(d)
    \/ pc = "idle" /\ \E i \in TimedInstruments : TimedIsExpired(i)
    \/ TimedReturn

SpecClock == Init /\ [][NextClock]_vars

(***************************************************************************)
(* Properties.                                                             *)
(***************************************************************************)
Returned(o) == pc = "done" /\ op = o

IsUpper(s) == to_uppercase(s) = s

\* a date token of exactly the venue's width that the venue's format parses
VenueDate(s, format) ==
    /\ Len(s) = (IF format = "%Y%m%d" THEN 8 ELSE 7)
    /\ IsUpper(s)
    /\ IsSome(parse_expiry_date(s, format))

\* BASE or BASE_QUOTE with QUOTE the venue default
DefaultQuoted(base_quote, default_quote) ==
    LET bq == split_once(base_quote, "_")
    IN  IsSome(bq) => Unwrap(bq)[2] = to_uppercase(default_quote)

\* the shapes of the venue grammar table, tokens upper-case, every accepted
\* spelling of strike and kind, the default quote written or left out
DocumentedOption(parts, format) ==
    /\ Len(parts) = 4
    /\ IsUpper(parts[1])
    /\ VenueDate(parts[2], format)
    /\ AllDigits(parts[3]) /\ IsSome(parse_u64(parts[3]))
    /\ parts[4] \in {"C", "CALL", "P", "PUT"}

DocumentedName(e, raw) ==
    LET parts == split(raw, "-")
    IN  CASE e = "Deribit" ->
                \/ /\ Len(parts) = 2 /\ parts[2] = "PERPETUAL"
                   /\ IsUpper(parts[1])
                   /\ DefaultQuoted(parts[1], DERIBIT_DEFAULT_QUOTE_CURRENCY)
                \/ /\ Len(parts) = 2 /\ IsUpper(parts[1])
                   /\ VenueDate(parts[2], DERIBIT_DEFAULT_EXPIRY_FORMAT)
                \/ DocumentedOption(parts, DERIBIT_DEFAULT_EXPIRY_FORMAT)
                \/ /\ Len(parts) = 1 /\ IsUpper(raw)
                   /\ Len(split(raw, "_")) = 2
                   /\ DefaultQuoted(raw, DERIBIT_DEFAULT_QUOTE_CURRENCY)
          [] e = "Derive" ->
                \/ Len(parts) = 2 /\ parts[2] = "PERP" /\ IsUpper(parts[1])
                \/ DocumentedOption(parts, DERIVE_DEFAULT_EXPIRY_FORMAT)
          [] e = "Aevo" ->
                \/ /\ Len(parts) = 2 /\ parts[2] = "PERP"
                   /\ IsUpper(parts[1])
                   /\ DefaultQuoted(parts[1], AEVO_DEFAULT_QUOTE_CURRENCY)
                \/ DocumentedOption(parts, AEVO_DEFAULT_EXPIRY_FORMAT)
          [] e = "Dydx" ->
                /\ Len(parts) = 2 /\ IsUpper(raw) /\ parts[2] # "PERP"
          [] e = "Paradex" ->
                /\ Len(parts) = 3 /\ IsUpper(raw) /\ parts[3] = "PERP"

\* the spelling denormalize itself writes: strike without sign or leading
\* zeros, kind C or P, and a default quote left out of a perpetual's name
EmittedName(e, raw) ==
    LET parts == split(raw, "-")
    IN  /\ DocumentedName(e, raw)
        /\ Len(parts) = 4 =>
                /\ parse_u64(parts[3]) = Some(parts[3])
                /\ parts[4] \in {"C", "P"}
        /\ (e \in {"Deribit", "Aevo"} /\ Len(parts) = 2) =>
                ~IsSome(split_once(parts[1], "_"))

RoundTrips ==
    /\ IsSome(out_instrument)
    /\ denormalize(handler, Unwrap(out_instrument)) = Some(name)

\* C1 as stated: every name in a documented shape, upper-case, quote at the
\* venue default, under a supported market type, normalizes to an instrument
\* whose denormalize is the name itself.
C1_RoundTripDocumented ==
    (/\ Returned("normalize")
     /\ supports_market_type(handler, market_type)
     /\ DocumentedName(handler, name)) => RoundTrips

\* C1 amended: the round trip holds for the names spelled the way the venue's
\* denormalize writes them (strike without sign or leading zeros, kind C or
\* P, default quote of a perpetual left out).
C1_RoundTripEmitted ==
    (/\ Returned("normalize")
     /\ supports_market_type(handler, market_type)
     /\ EmittedName(handler, name)) => RoundTrips

C1_Witness ==
    /\ Returned("normalize")
    /\ handler = "Deribit"
    /\ name = "BTC-28MAR25-100000-C"
    /\ EmittedName(handler, name)
    /\ RoundTrips

\* the documented canonical <-> venue pairs
Scenarios ==
    {[exchange |-> "Deribit", venue |-> "BTC-28MAR25-100000-C",
      canonical |-> "o.o.BTC-USD-20250328-100000-C.deribit"],
     [exchange |-> "Deribit", venue |-> "SOL_USDC-PERPETUAL",
      canonical |-> "o.p.SOL-USDC.deribit"],
     [exchange |-> "Derive", venue |-> "BTC-20250328-100000-C",
      canonical |-> "o.o.BTC-USD-20250328-100000-C.derive"],
     [exchange |-> "Dydx", venue |-> "BTC-USD",
      canonical |-> "o.p.BTC-USD.dydx"],
     [exchange |-> "Paradex", venue |-> "BTC-USD-PERP",
      canonical |-> "o.p.BTC-USD.paradex"]}

\* C2: each documented pair holds in both directions: the instrument that
\* normalize(OrderBook, venue name) returns renders as the canonical string,
\* and to_exchange_format(canonical string) is the venue name.
C2_ScenariosBothWays ==
    \A s \in Scenarios :
        /\ (/\ Returned("normalize") /\ handler = s.exchange
            /\ market_type = "OrderBook" /\ name = s.venue)
           => (/\ IsSome(out_instrument)
               /\ Instrument_fmt(Unwrap(out_instrument)) = Some(s.canonical))
        /\ (Returned("to_exchange_format") /\ name = s.canonical)
           => out_name = Some(s.venue)

C2_Witness ==
    /\ Returned("to_exchange_format")
    /\ name = "o.p.SOL-USDC.deribit"
    /\ out_name = Some("SOL_USDC-PERPETUAL")

\* the candidate instrument of a canonical text: four fields of which the
\* exchange, the market type and the kind with its inner name all parse
Candidate(text) ==
    LET parts == split(text, ".")
    IN  IF Len(parts) # 4 THEN None
        ELSE LET exchange == Exchange_try_from(parts[4])
                 mt       == MarketType_try_from(parts[1])
                 t        == InstrumentType_from_str(parts[2], parts[3])
             IN  IF IsSome(exchange) /\ IsSome(mt) /\ IsSome(t)
                 THEN Some(Instrument_new(Unwrap(exchange), Unwrap(mt), Unwrap(t)))
                 ELSE None

Accepted(i) == IsSome(denormalize(i.exchange, i))

\* C3: parse_standard_format returns Ok(i) only when the handler of
\* i.exchange denormalizes i, and a candidate that handler does not
\* denormalize is Err(UnsupportedByExchange).
C3_DenormalizeGate ==
    Returned("parse_standard_format") =>
        /\ out_err = "" =>
                (IsSome(out_instrument) /\ Accepted(Unwrap(out_instrument)))
        /\ (IsSome(Candidate(name)) /\ ~Accepted(Unwrap(Candidate(name))))
                => (out_err = "UnsupportedByExchange" /\ out_instrument = None)

C3_Witness ==
    /\ Returned("parse_standard_format")
    /\ IsSome(Candidate(name))
    /\ ~Accepted(Unwrap(Candidate(name)))
    /\ out_err = "UnsupportedByExchange"

ReturnedInstrument ==
    /\ pc = "done"
    /\ op \in {"normalize", "parse_standard_format"}
    /\ IsSome(out_instrument)

CanonicalDate(s) ==
    /\ Len(s) = 8
    /\ AllDigits(s)
    /\ IsSome(parse_expiry_date(s, STANDARD_DATE_FORMAT))

\* C4: the expiry of every Future or Option that normalize or
\* parse_standard_format returns is a valid calendar date written YYYYMMDD.
C4_ExpiryCanonical ==
    (/\ ReturnedInstrument
     /\ Unwrap(out_instrument).instrument_type.tag \in {"Future", "Option"})
    => CanonicalDate(Unwrap(out_instrument).instrument_type.expiry)

\* C5: base and quote of every instrument that normalize or
\* parse_standard_format returns are upper-case.
C5_CurrencyUpper ==
    ReturnedInstrument =>
        /\ IsUpper(Unwrap(out_instrument).instrument_type.base)
        /\ IsUpper(Unwrap(out_instrument).instrument_type.quote)

\* C6: an instrument that a handler's normalize returns is denormalized by
\* the same handler.
C6_NormalizeOutputAccepted ==
    (Returned("normalize") /\ IsSome(out_instrument))
    => IsSome(denormalize(handler, Unwrap(out_instrument)))

C6_Witness ==
    /\ Returned("normalize")
    /\ handler = "Aevo"
    /\ market_type = "Ticker"
    /\ IsSome(out_instrument)
    /\ IsSome(denormalize(handler, Unwrap(out_instrument)))

DefaultQuoteOf(e) ==
    CASE e = "Deribit" -> DERIBIT_DEFAULT_QUOTE_CURRENCY
      [] e = "Derive"  -> DERIVE_DEFAULT_QUOTE_CURRENCY
      [] e = "Aevo"    -> AEVO_DEFAULT_QUOTE_CURRENCY

\* the venue name writes the quote: its first token is BASE_QUOTE
CarriesQuote(venue_name, t) ==
    split(venue_name, "-")[1] = t.base \o "_" \o t.quote

\* C7: on a venue with a default quote the name denormalize writes leaves
\* the quote out when it is the default and carries it when it is not (a
\* spot name, BASE_QUOTE in the venue table, is its quote's only place and
\* is read as always carrying it).
C7_QuoteOmissionRule ==
    (/\ Returned("denormalize")
     /\ handler \in {"Deribit", "Derive", "Aevo"}
     /\ IsSome(out_name))
    => LET t == Unwrap(instrument).instrument_type
           is_default == eq_ignore_ascii_case(t.quote, DefaultQuoteOf(handler))
       IN  /\ (is_default /\ t.tag # "Spot") => ~CarriesQuote(Unwrap(out_name), t)
           /\ ~is_default => CarriesQuote(Unwrap(out_name), t)

\* C8: normalize under a market type the venue does not support is None,
\* whatever the name.
C8_UnsupportedMarketRejected ==
    (Returned("normalize") /\ ~supports_market_type(handler, market_type))
    => out_instrument = None

C8_Witness ==
    /\ Returned("normalize")
    /\ handler = "Dydx"
    /\ market_type = "Ticker"
    /\ IsSome(normalize("Dydx", "OrderBook", name))
    /\ out_instrument = None

\* C9: denormalize is None when the instrument's exchange is not the
\* handler's, or its market type or its instrument type is unsupported.
C9_DenormalizeRejects ==
    Returned("denormalize") =>
        LET i == Unwrap(instrument)
        IN  (\/ i.exchange # handler
             \/ ~supports_market_type(handler, i.market_type)
             \/ ~supports_instrument_type(handler, i.instrument_type))
            => out_name = None

C9_Witness ==
    /\ Returned("denormalize")
    /\ handler = "Derive"
    /\ Unwrap(instrument).exchange = "Derive"
    /\ Unwrap(instrument).instrument_type.tag = "Spot"
    /\ out_name = None

\* the number of '-' tokens the codec wants for a kind code, 0 for a code
\* that names no kind
KindArity(code) ==
    LET k == trim(code)
    IN  IF eq_ignore_ascii_case(k, "o") \/ eq_ignore_ascii_case(k, "option") THEN 5
        ELSE IF eq_ignore_ascii_case(k, "f") \/ eq_ignore_ascii_case(k, "future") THEN 3
        ELSE IF eq_ignore_ascii_case(k, "p") \/ eq_ignore_ascii_case(k, "perpetual") THEN 2
        ELSE IF eq_ignore_ascii_case(k, "s") \/ eq_ignore_ascii_case(k, "spot") THEN 2
        ELSE 0

WrongArity(parts) ==
    /\ Len(parts) = 4
    /\ KindArity(parts[2]) # 0
    /\ Len(split(parts[3], "-")) # KindArity(parts[2])

C11_TwoTokenOptionAccepted ==
    (Returned("parse_standard_format") /\ name = "o.o.BTC-USD.deribit") =>
        out_err = "" /\ IsSome(out_instrument)

\* a sub-field of a four-field text that does not parse: the exchange name,
\* the market-type code, or, in an option's five-token inner name, the
\* strike or the option kind
IsOptionCode(code) ==
    eq_ignore_ascii_case(trim(code), "o")
        \/ eq_ignore_ascii_case(trim(code), "option")

BadOptionSubField(parts) ==
    /\ IsOptionCode(parts[2])
    /\ LET inner == split(parts[3], "-")
       IN  /\ Len(inner) = 5
           /\ \/ ~IsSome(parse_u64(inner[4]))
              \/ ~IsSome(OptionKind_try_from(inner[5]))

SubFieldFails(parts) ==
    \/ ~IsSome(Exchange_try_from(parts[4]))
    \/ ~IsSome(MarketType_try_from(parts[1]))
    \/ BadOptionSubField(parts)

\* C12: with four fields and an inner name of the kind's arity, a text whose
\* exchange name, market-type code, strike or option-kind token does not
\* parse is Err(ParseError).
C12_SubFieldParseError ==
    Returned("parse_standard_format") =>
        LET parts == split(name, ".")
        IN  (/\ Len(parts) = 4
             /\ KindArity(parts[2]) # 0
             /\ ~WrongArity(parts)
             /\ SubFieldFails(parts)) => out_err = "ParseError"

\* C13: to_exchange_format(text) is None exactly when
\* parse_standard_format(text) is an error, and otherwise is Some of what
\* the handler of the parsed instrument's exchange denormalizes it to.
C13_ComposesParseAndDenormalize ==
    Returned("to_exchange_format") =>
        LET r == parse_standard_format(name)
        IN  IF r.err # "" THEN out_name = None
            ELSE /\ IsSome(out_name)
                 /\ out_name = denormalize(Unwrap(r.value).exchange,
                                           Unwrap(r.value))

C13_Witness ==
    /\ Returned("to_exchange_format")
    /\ name = "o.o.BTC-USD-20250328-100000-C.derive"
    /\ parse_standard_format(name).err = ""
    /\ out_name = Some("BTC-20250328-100000-C")

\* the numbers of '-' tokens of the names a venue's normalize has an arm for
ShapeArities(e) ==
    CASE e = "Deribit" -> {1, 2, 4}
      [] e = "Derive"  -> {2, 4}
      [] e = "Aevo"    -> {2, 4}
      [] e = "Dydx"    -> {2}
      [] e = "Paradex" -> {3}

\* C14: normalize returns None for a name whose number of '-' tokens is
\* none of the venue's; "BTC-USD-20250528" is rejected by all five handlers
\* under every market type, and "BTC-PERP" by Paradex.
C14_RejectionClosure ==
    Returned("normalize") =>
        /\ Len(split(name, "-")) \notin ShapeArities(handler) =>
              out_instrument = None
        /\ name = "BTC-USD-20250528" => out_instrument = None
        /\ (handler = "Paradex" /\ name = "BTC-PERP") => out_instrument = None

C14_Witness ==
    /\ Returned("normalize")
    /\ handler = "Deribit"
    /\ market_type = "OrderBook"
    /\ name = "BTC-USD-20250528"
    /\ Len(split(name, "-")) \notin ShapeArities(handler)
    /\ out_instrument = None

\* C15: the Dydx handler's normalize accepts a name only when it has two
\* tokens and the second is not the word perp; normalize(OrderBook,
\* "BTC-PERP") is None.
C15_DydxQuoteNotPerp ==
    (Returned("normalize") /\ handler = "Dydx") =>
        LET parts == split(name, "-")
        IN  /\ IsSome(out_instrument) =>
                  Len(parts) = 2 /\ ~eq_ignore_ascii_case(parts[2], "perp")
            /\ name = "BTC-PERP" => out_instrument = None

\* C16: no public operation, and no rendering of an instrument that
\* normalize or parse_standard_format returned, ends in a formatting error.
C16_NoFatalFailure ==
    pc = "done" => out_err # "fmt::Error"

Restricts(e) ==
    \/ \E m \in MarketType : ~supports_market_type(e, m)
    \/ \E t \in CallerInstrumentTypes : ~supports_instrument_type(e, t)

\* C18 as stated: each of the five handlers rejects at least one market
\* type or at least one instrument type, so whichever handler is asked
\* what it supports is one that restricts something.
C18_EveryVenueRestricts ==
    (Returned("supports_market_type") \/ Returned("supports_instrument_type"))
        => Restricts(handler)

\* C18 amended: every handler but Deribit's rejects a market type or an
\* instrument type; the Deribit handler overrides neither predicate and
\* answers true for every market type and every instrument type.
C18_EveryVenueButDeribitRestricts ==
    /\ \A e \in Exchange \ {"Deribit"} : Restricts(e)
    /\ ~Restricts("Deribit")
    /\ (Returned("supports_market_type") /\ handler = "Deribit") =>
          out_bool = Some(TRUE)
    /\ (Returned("supports_instrument_type") /\ handler = "Deribit") =>
          out_bool = Some(TRUE)

C18_Witness ==
    /\ Returned("supports_instrument_type")
    /\ handler = "Derive"
    /\ Unwrap(instrument).instrument_type.tag = "Spot"
    /\ out_bool = Some(FALSE)

\* a canonical order-book text naming deribit: a kind code, an inner name
\* of the kind's arity, and, where the kind has them, a YYYYMMDD expiry
\* that is a date, a strike that is a u64 and an option-kind token
WellFormedDeribitText(parts) ==
    /\ Len(parts) = 4
    /\ MarketType_try_from(parts[1]) = Some("OrderBook")
    /\ Exchange_try_from(parts[4]) = Some("Deribit")
    /\ KindArity(parts[2]) # 0
    /\ LET inner == split(parts[3], "-")
       IN  /\ Len(inner) = KindArity(parts[2])
           /\ Len(inner) >= 3 => CanonicalDate(inner[3])
           /\ Len(inner) = 5 =>
                 /\ IsSome(parse_u64(inner[4]))
                 /\ IsSome(OptionKind_try_from(inner[5]))

\* C19: for each kind code (f, o, s, p) parse_standard_format returns Ok
\* for a well-formed canonical order-book text naming deribit.
C19_DeribitAcceptsEveryKind ==
    (Returned("parse_standard_format")
     /\ WellFormedDeribitText(split(name, "."))) =>
        /\ out_err = ""
        /\ IsSome(out_instrument)
        /\ Unwrap(out_instrument).exchange = "Deribit"

C19_Witness ==
    /\ Returned("parse_standard_format")
    /\ name = "o.s.BTC-USD.deribit"
    /\ WellFormedDeribitText(split(name, "."))
    /\ out_err = ""
    /\ Unwrap(out_instrument).instrument_type.tag = "Spot"

\* the clock is strictly past 23:59:59.999 of the date d
StrictlyAfterEndOfDay(clock, d) ==
    \/ DateBefore(d, clock.date)
    \/ /\ clock.date = d
       /\ \/ clock.milli > END_OF_DAY_MILLI
          \/ clock.milli = END_OF_DAY_MILLI /\ clock.nano > 0

\* C20: for a valid YYYYMMDD date is_date_expired is true exactly when the
\* clock is strictly after 23:59:59.999 of that date, and for any other text
\* it is an error, not a boolean.
C20_ExpiryAgainstClock ==
    Returned("is_date_expired") =>
        IF CanonicalDate(name)
        THEN /\ out_err = ""
             /\ out_bool = Some(StrictlyAfterEndOfDay(Unwrap(now),
                    Unwrap(parse_expiry_date(name, STANDARD_DATE_FORMAT))))
        ELSE out_err # "" /\ out_bool = None

(***************************************************************************)
(* C21: for every date text s that one of the three accepted formats       *)
(* parses, normalize_expiry(s) is the YYYYMMDD text of the date the first  *)
(* such format reads, and denormalize_expiry of that text in a target      *)
(* format is the upper-cased rendering of the same date in that format.    *)
(***************************************************************************)
AcceptedBy(s) ==
    {k \in 1..Len(ExpiryFormats) : IsSome(parse_expiry_date(s, ExpiryFormats[k]))}

\* the calendar date s denotes: the reading of the first format that parses
DateDenoted(s) ==
    LET k == CHOOSE j \in AcceptedBy(s) : \A i \in AcceptedBy(s) : j <= i
    IN  Unwrap(parse_expiry_date(s, ExpiryFormats[k]))

C21_ExpiryRoundTrip ==
    /\ (Returned("normalize_expiry") /\ AcceptedBy(name) # {}) =>
            out_name = Some(format_expiry_date(DateDenoted(name),
                                               STANDARD_DATE_FORMAT))
    /\ Returned("denormalize_expiry") =>
            \A s \in ExpiryTexts :
                (AcceptedBy(s) # {} /\ normalize_expiry(s) = Some(name)) =>
                    out_name = Some(to_uppercase(
                                 format_expiry_date(DateDenoted(s), pattern)))

\* the canonical text of 28mar25 was rendered in the venue's short format
C21_Witness ==
    /\ Returned("denormalize_expiry")
    /\ name = "20250328"
    /\ normalize_expiry("28mar25") = Some(name)
    /\ pattern = "%d%b%y"
    /\ out_name = Some("28MAR25")

(***************************************************************************)
(* C22: Currency::new is idempotent on its own text, and two symbols that  *)
(* differ only in letter case give equal currencies.                       *)
(***************************************************************************)
C22_CurrencyIdempotent ==
    Returned("Currency::new") =>
        /\ Currency_new(Unwrap(out_name)) = Unwrap(out_name)
        /\ \A y \in Symbols :
              eq_ignore_ascii_case(name, y) => Currency_new(y) = Unwrap(out_name)

\* a lower-case symbol outside the common codes was canonicalized, and its
\* upper-case and mixed-case spellings are among the symbols compared
C22_Witness ==
    /\ Returned("Currency::new")
    /\ name = "doge"
    /\ out_name = Some("DOGE")
    /\ {"DOGE", "Doge"} \subseteq {y \in Symbols : eq_ignore_ascii_case(name, y)}

(***************************************************************************)
(* C23: Exchange::try_from returns a venue exactly for the texts that are  *)
(* the venue's name in any letter case between runs of white space, and    *)
(* an error for every other text; the rendering of a venue is its name in  *)
(* lower case, and Exchange::try_from reads it back as the same venue.     *)
(***************************************************************************)
\* text is e's name in some letter case with white space around it
NamesVenue(text, e) ==
    \E i \in 1..(Len(text) + 1), j \in 0..Len(text) :
        /\ to_uppercase(SubSeq(text, i, j)) = to_uppercase(e)
        /\ \A k \in (1..(i - 1)) \cup ((j + 1)..Len(text)) :
              CharAt(text, k) \in Whitespace

IsLower(s) == \A k \in 1..Len(s) : CharAt(s, k) \in LowerChars

C23_ExchangeNames ==
    /\ Returned("Exchange::try_from") =>
          /\ \A e \in Exchange : (out_name = Some(e)) <=> NamesVenue(name, e)
          /\ (out_name = None) <=> (out_err # "")
          /\ (\A e \in Exchange : ~NamesVenue(name, e)) => out_err # ""
    /\ Returned("Exchange::fmt") =>
          /\ IsSome(out_name)
          /\ IsLower(Unwrap(out_name))
          /\ to_uppercase(Unwrap(out_name)) = to_uppercase(handler)
          /\ Exchange_try_from(Unwrap(out_name)) = Some(handler)

\* a padded upper-case name was accepted
C23_Witness ==
    /\ Returned("Exchange::try_from")
    /\ name = " PARADEX  "
    /\ out_name = Some("Paradex")

(***************************************************************************)
(* C24: a canonical text and the same text with the market-type code, the  *)
(* kind code, the base, the quote, the option-kind letter and the exchange *)
(* name in another letter case are both rejected by parse_standard_format  *)
(* or both parsed to the same Instrument.  Every text is compared with its *)
(* all-upper and its all-lower spelling of those fields, so that any two   *)
(* texts with the same spellings are compared with each other.             *)
(***************************************************************************)
UpperChars == {CharAt(Uppers, i) : i \in 1..Len(Uppers)}
LowerOf == [c \in UpperChars |-> CharAt(Lowers, FirstIndex(c, Uppers))]

RECURSIVE Lowered(_)
Lowered(s) ==
    IF s = "" THEN ""
    ELSE (IF Head(s) \in UpperChars THEN LowerOf[Head(s)] ELSE Head(s))
         \o Lowered(Tail(s))

\* the instrument name with every token but the expiry and the strike
\* (third and fourth) put in upper or in lower case
FoldName(inner, upper) ==
    LET ts == split(inner, "-")
    IN  join([k \in 1..Len(ts) |->
                IF k \in {3, 4} THEN ts[k]
                ELSE IF upper THEN to_uppercase(ts[k]) ELSE Lowered(ts[k])],
             "-")

FoldText(text, upper) ==
    LET fs == split(text, ".")
        F(x) == IF upper THEN to_uppercase(x) ELSE Lowered(x)
    IN  IF Len(fs) # 4 THEN text
        ELSE join(<<F(fs[1]), F(fs[2]), FoldName(fs[3], upper), F(fs[4])>>, ".")

C24_CaseInsensitive ==
    Returned("parse_standard_format") =>
        \A upper \in BOOLEAN :
            LET other == parse_standard_format(FoldText(name, upper))
            IN  \/ other.err # "" /\ out_err # ""
                \/ other.err = "" /\ out_err = "" /\ other.value = out_instrument

\* a text with an upper-case market code, a lower-case base and quote and a
\* spelled-out option kind was parsed, and differs from both spellings
C24_Witness ==
    /\ Returned("parse_standard_format")
    /\ name = "O.o.btc-usd-20250328-100000-put.Deribit"
    /\ out_err = ""
    /\ FoldText(name, TRUE) = "O.O.BTC-USD-20250328-100000-PUT.DERIBIT"
    /\ FoldText(name, FALSE) = "o.o.btc-usd-20250328-100000-put.deribit"

(***************************************************************************)
(* C25: on Deribit, Derive and Aevo, under a market type the venue         *)
(* supports, normalize of a four-token name BASE-EXPIRY-STRIKE-KIND is     *)
(* None when the expiry does not parse in the venue's date format, when    *)
(* the strike is not a decimal unsigned integer within 64 bits (digits,    *)
(* which a plus sign may precede), or when the kind is not c, call, p or   *)
(* put in some letter case; otherwise it is an Option with the strike's    *)
(* value and the kind the token names.                                     *)
(***************************************************************************)
OptionVenues == {"Deribit", "Derive", "Aevo"}

VenueFormat(e) ==
    CASE e = "Deribit" -> "%d%b%y"
      [] e = "Derive"  -> "%Y%m%d"
      [] e = "Aevo"    -> "%d%b%y"

StrikeDigits(s) == IF s # "" /\ Head(s) = "+" THEN Tail(s) ELSE s

IsDecimalU64(s) ==
    /\ StrikeDigits(s) # ""
    /\ \A k \in 1..Len(StrikeDigits(s)) : CharAt(StrikeDigits(s), k) \in DigitChars
    /\ LET n == StripZeros(StrikeDigits(s))
       IN  Len(n) < 20 \/ (Len(n) = 20 /\ NumeralLeq(n, "18446744073709551615"))

KindNamed(token) ==
    IF Lowered(token) \in {"c", "call"} THEN Some("Call")
    ELSE IF Lowered(token) \in {"p", "put"} THEN Some("Put")
    ELSE None

C25_OptionSubFields ==
    (/\ Returned("normalize")
     /\ handler \in OptionVenues
     /\ supports_market_type(handler, market_type)
     /\ Len(split(name, "-")) = 4) =>
        LET parts == split(name, "-")
        IN  IF \/ ~IsSome(parse_expiry_date(parts[2], VenueFormat(handler)))
               \/ ~IsDecimalU64(parts[3])
               \/ ~IsSome(KindNamed(parts[4]))
            THEN out_instrument = None
            ELSE /\ IsSome(out_instrument)
                 /\ Unwrap(out_instrument).instrument_type.tag = "Option"
                 /\ Unwrap(out_instrument).instrument_type.strike
                      = StripZeros(StrikeDigits(parts[3]))
                 /\ Some(Unwrap(out_instrument).instrument_type.kind)
                      = KindNamed(parts[4])

\* a strike one past the 64-bit range was rejected with a good expiry and
\* a good kind around it
C25_Witness ==
    /\ Returned("normalize")
    /\ handler = "Deribit"
    /\ name = "BTC-28MAR25-18446744073709551616-C"
    /\ IsSome(parse_expiry_date("28MAR25", VenueFormat(handler)))
    /\ out_instrument = None

(***************************************************************************)
(* C26: on Deribit (keyword PERPETUAL, default quote USD) and Aevo         *)
(* (keyword PERP, default quote USDC), under a market type the venue       *)
(* supports, normalize of a two-token name whose second token is the       *)
(* keyword in any letter case is a Perpetual, never a Future or an         *)
(* Option: base and quote are the parts of the first token before and      *)
(* after its first '_', and the quote is the venue's default when the      *)
(* token has no '_'.                                                       *)
(***************************************************************************)
PerpetualKeyword(e) == IF e = "Deribit" THEN "perpetual" ELSE "perp"

\* positions of '_' in a token
Underscores(token) == {k \in 1..Len(token) : CharAt(token, k) = "_"}

FirstUnderscore(token) ==
    CHOOSE k \in Underscores(token) : \A j \in Underscores(token) : k <= j

ExpectedPerpetual(e, token) ==
    IF Underscores(token) = {}
    THEN Perpetual(to_uppercase(token), IF e = "Deribit" THEN "USD" ELSE "USDC")
    ELSE Perpetual(
            to_uppercase(SubSeq(token, 1, FirstUnderscore(token) - 1)),
            to_uppercase(SubSeq(token, FirstUnderscore(token) + 1, Len(token))))

C26_PerpetualQuote ==
    (/\ Returned("normalize")
     /\ handler \in {"Deribit", "Aevo"}
     /\ supports_market_type(handler, market_type)
     /\ Len(split(name, "-")) = 2
     /\ Lowered(split(name, "-")[2]) = PerpetualKeyword(handler)) =>
        out_instrument =
            Some(Instrument_new(handler, market_type,
                    ExpectedPerpetual(handler, split(name, "-")[1])))

\* a first token with two underscores was split at the first one
C26_Witness ==
    /\ Returned("normalize")
    /\ handler = "Deribit"
    /\ name = "A_B_C-PERPETUAL"
    /\ IsSome(out_instrument)
    /\ Unwrap(out_instrument).instrument_type = Perpetual("A", "B_C")

(***************************************************************************)
(* C27: Instrument::is_expired always returns a boolean: false for a Spot  *)
(* and for a Perpetual at every clock reading, false for a Future or an    *)
(* Option whose expiry is not eight digits naming a calendar date, and     *)
(* for every other Future or Option what is_date_expired returns for the   *)
(* expiry at the same reading.                                             *)
(***************************************************************************)
C27_IsExpiredTotal ==
    Returned("is_expired") =>
        LET t == Unwrap(instrument).instrument_type
        IN  /\ out_bool \in {Some(TRUE), Some(FALSE)}
            /\ out_err = ""
            /\ IF t.tag \in {"Spot", "Perpetual"} THEN out_bool = Some(FALSE)
               ELSE IF ~CanonicalDate(t.expiry) THEN out_bool = Some(FALSE)
               ELSE out_bool = is_date_expired(t.expiry, Unwrap(now)).value

(***************************************************************************)
(* C28: an instrument that normalize returned is rendered to canonical     *)
(* text without error, and parse_standard_format of that text returns Ok   *)
(* of an equal instrument.  (Of the calls whose result can be rendered,    *)
(* only normalize sets handler, and rendering and parsing keep it: a       *)
(* handler at hand marks an instrument that came from normalize.)          *)
(***************************************************************************)
C28_CanonicalTextRoundTrip ==
    /\ (Returned("fmt") /\ handler # "") => IsSome(out_name)
    /\ (Returned("parse_standard_format") /\ handler # "") =>
          /\ out_err = ""
          /\ out_instrument = instrument

(***************************************************************************)
(* C29: when to_exchange_format turns a canonical text into a venue name,  *)
(* the handler of the parsed instrument's exchange normalizes that venue   *)
(* name, under the instrument's market type, back to the parsed            *)
(* instrument.                                                             *)
(***************************************************************************)
C29_VenueNameRoundTrip ==
    (Returned("to_exchange_format") /\ IsSome(out_name)) =>
        LET parsed == parse_standard_format(name)
        IN  parsed.err = "" =>
                normalize(Unwrap(parsed.value).exchange,
                          Unwrap(parsed.value).market_type,
                          Unwrap(out_name)) = parsed.value

(***************************************************************************)
(* C30: with a clock that never goes backwards, once is_date_expired, or   *)
(* Instrument::is_expired of a Future or an Option, has answered true for  *)
(* an expiry that is a valid YYYYMMDD date, every later call of either     *)
(* for the same expiry answers true.                                       *)
(***************************************************************************)
C30_ExpiryMonotonic ==
    /\ (/\ Returned("is_date_expired")
        /\ CanonicalDate(name)
        /\ name \in expired) => out_bool = Some(TRUE)
    /\ (/\ Returned("is_expired")
        /\ Unwrap(instrument).instrument_type.tag \in {"Future", "Option"}
        /\ CanonicalDate(Unwrap(instrument).instrument_type.expiry)
        /\ Unwrap(instrument).instrument_type.expiry \in expired) =>
            out_bool = Some(TRUE)

\* an option was checked again, the day after its expiry, once the caller
\* had already taken the answer true for that expiry, and was still expired
C30_Witness ==
    /\ Returned("is_expired")
    /\ Unwrap(instrument).instrument_type.tag = "Option"
    /\ Unwrap(instrument).instrument_type.expiry = "20250328"
    /\ "20250328" \in expired
    /\ now = Some(and_time([year |-> 2025, month |-> 3, day |-> 29], 0, 0))
    /\ out_bool = Some(TRUE)

====
